---- MODULE Spec2Model ----
(***************************************************************************)
(* ChronoTree: the merge / bitter-end engine of src/unnamed/part_004       *)
(* (class ChronoTree, lines 55-259), the revision of src/src/chronoTree.ts *)
(* that the test suite src/test/chronoTreeTests.ts is written against (it  *)
(* has print(), the sorted getters, the known-hash guards of add and       *)
(* mergeImpl and the single-loose-end branch of mergeImpl).                *)
(*                                                                         *)
(* A Hash is a positive integer; the lexicographic order of hash strings   *)
(* is the order of the integers.  Storage gives equal hashes to nodes      *)
(* whose type, parent, predecessors and content are equal, and fixes the   *)
(* order of the hashes it hands out when the first node is saved.           *)
(***************************************************************************)
EXTENDS Integers, Sequences, FiniteSets, TLC

\* ------------------------------------------------------------------ bounds
\* number of distinct hashes Storage can hand out
MaxHash == 12
\* number of nodes Storage may hold when the replicas run freely
MaxNodes == 5
\* number of rounds of the simulation
MaxRounds == 2

\* the payloads of the nodes the replicas add when they run freely
Payloads == {1, 2}
\* number of Content nodes Storage may hold when the replicas run freely:
\* the root and one more for each payload
MaxContent == Cardinality(Payloads) + 1

\* the three replicas of the tests
Trees == {"A", "B", "C"}

VARIABLES
    trees,    \* per replica: constructed, _bitterEnd, _knownNodes, _looseEnds
    store,    \* Storage: hash -> saved node
    deleted,  \* hashes Storage.delete was called with
    last,     \* the public operation that ran last
    pc        \* the place of a test in its script

vars == <<trees, store, deleted, last, pc>>

\* ------------------------------------------------------------- node model
HASH_NOT_SET == 0

Content == "Content"
Aggregate == "Aggregate"

\* a node with no payload
NoContent == 0

Node(hash, type, parent, predecessors, content) ==
    [hash |-> hash, type |-> type, parent |-> parent,
     predecessors |-> predecessors, content |-> content]

\* new TestNode() with content and parent set by the caller
TestNode(content, parent) == Node(HASH_NOT_SET, Content, parent, <<>>, content)

\* BitterEndNode whose constructor leaves the type as Node sets it
UntypedEndNode == Node(HASH_NOT_SET, Content, HASH_NOT_SET, <<>>, NoContent)

BitterEndNode == Node(HASH_NOT_SET, Aggregate, HASH_NOT_SET, <<>>, NoContent)

\* ------------------------------------------------------- arrays and sets
Range(s) == {s[i] : i \in 1..Len(s)}

Min(S) == CHOOSE x \in S : \A y \in S : x <= y
Max(S) == CHOOSE x \in S : \A y \in S : x >= y

\* the count of x in array s
Count(s, x) == Cardinality({i \in 1..Len(s) : s[i] = x})

RECURSIVE Repeat(_, _)
Repeat(x, n) == IF n = 0 THEN <<>> ELSE <<x>> \o Repeat(x, n - 1)

RECURSIVE SortFrom(_, _)
SortFrom(s, S) ==
    IF S = {} THEN <<>>
    ELSE Repeat(Min(S), Count(s, Min(S))) \o SortFrom(s, S \ {Min(S)})

\* the array left as toArray() returned it: sort() was forgotten
Unsorted(s) == s

\* Array.prototype.sort() on an array of hashes, as looseEnds, mergeImpl and
\* the getters call it
Sort(s) == SortFrom(s, Range(s))

\* Collections.Set keeps its elements in insertion order
SetAdd(s, x) == IF x \in Range(s) THEN s ELSE Append(s, x)

SetRemove(s, x) == SelectSeq(s, LAMBDA y : y # x)

RECURSIVE SetAddAll(_, _)
SetAddAll(s, xs) ==
    IF xs = <<>> THEN s ELSE SetAddAll(SetAdd(s, Head(xs)), Tail(xs))

RECURSIVE SetRemoveAll(_, _)
SetRemoveAll(s, xs) ==
    IF xs = <<>> THEN s ELSE SetRemoveAll(SetRemove(s, Head(xs)), Tail(xs))

\* Collections.Dictionary
EmptyDictionary == [h \in {} |-> BitterEndNode]

SetValue(d, k, v) == [h \in DOMAIN d \cup {k} |-> IF h = k THEN v ELSE d[h]]

Remove(d, k) == [h \in DOMAIN d \ {k} |-> d[h]]

\* ---------------------------------------------------------------- Storage
\* what TestStorage.computeHash hashes: the node with its hash cleared
Cleared(node) == [node EXCEPT !.hash = HASH_NOT_SET]

\* the hash of a node not saved before: in one run every new hash sorts
\* after, in another before, all hashes handed out earlier (the first save
\* decides); HASH_NOT_SET when no hash is left
FreshHash(st) ==
    LET free == (1..MaxHash) \ DOMAIN st
    IN  IF free = {} THEN HASH_NOT_SET
        ELSE IF 1 \in DOMAIN st THEN Min(free) ELSE Max(free)

\* Storage.save: the hash of the node, and Storage with the node in it
save(st, node, fresh) ==
    LET same == {h \in DOMAIN st : Cleared(st[h]) = Cleared(node)}
    IN  IF same # {}
        THEN [hash |-> CHOOSE h \in same : TRUE, store |-> st]
        ELSE [hash |-> fresh,
              store |-> SetValue(st, fresh, [node EXCEPT !.hash = fresh])]

\* Storage.find throws for a hash that was never saved
Found(st, hash) == hash \in DOMAIN st

find(st, hash) == st[hash]


\* ------------------------------------------------------------- ChronoTree
\* a replica before its constructor ran
NoTree ==
    [constructed |-> FALSE, bitterEnd |-> HASH_NOT_SET,
     knownNodes |-> EmptyDictionary, looseEnds |-> <<>>]

\* what a call leaves behind: the replica, Storage, the hashes deleted, and
\* whether the call threw
Outcome(tree, st, del, err) ==
    [tree |-> tree, store |-> st, deleted |-> del, err |-> err]

\* replaceBitterEnd that purges the old bitter end whatever its type
replaceBitterEndPurgesAll(tree, st, del, newBitterEndNode, fresh) ==
    LET sv == save(st, newBitterEndNode, fresh)
        hashed == [newBitterEndNode EXCEPT !.hash = sv.hash]
        oldBitterEnd == tree.bitterEnd
        moved == [tree EXCEPT !.bitterEnd = sv.hash]
    IN  IF oldBitterEnd \notin DOMAIN tree.knownNodes
        THEN [tree |-> moved, store |-> sv.store, deleted |-> del,
              err |-> TRUE, node |-> hashed]
        ELSE [tree |-> [moved EXCEPT
                  !.knownNodes = Remove(@, oldBitterEnd),
                  !.looseEnds =
                      IF newBitterEndNode.type = Content
                      THEN SetAdd(SetRemove(@, oldBitterEnd), sv.hash)
                      ELSE @],
              store |-> sv.store, deleted |-> del \cup {oldBitterEnd},
              err |-> FALSE, node |-> hashed]

\* replaceBitterEnd that forgets to purge the obsolete aggregate node
replaceBitterEndKeeps(tree, st, del, newBitterEndNode, fresh) ==
    LET sv == save(st, newBitterEndNode, fresh)
        hashed == [newBitterEndNode EXCEPT !.hash = sv.hash]
        oldBitterEnd == tree.bitterEnd
        moved == [tree EXCEPT !.bitterEnd = sv.hash]
    IN  IF oldBitterEnd \notin DOMAIN tree.knownNodes
        THEN [tree |-> moved, store |-> sv.store, deleted |-> del,
              err |-> TRUE, node |-> hashed]
        ELSE [tree |-> [moved EXCEPT
                  !.looseEnds =
                      IF newBitterEndNode.type = Content
                      THEN SetAdd(SetRemove(@, oldBitterEnd), sv.hash)
                      ELSE @],
              store |-> sv.store, deleted |-> del,
              err |-> FALSE, node |-> hashed]

\* ChronoTree.replaceBitterEnd; the caller's node gets the hash Storage gave
replaceBitterEnd(tree, st, del, newBitterEndNode, fresh) ==
    LET sv == save(st, newBitterEndNode, fresh)
        hashed == [newBitterEndNode EXCEPT !.hash = sv.hash]
        oldBitterEnd == tree.bitterEnd
        moved == [tree EXCEPT !.bitterEnd = sv.hash]
    IN  IF oldBitterEnd \notin DOMAIN tree.knownNodes
        THEN \* getNode(oldBitterEnd) throws
             [tree |-> moved, store |-> sv.store, deleted |-> del,
              err |-> TRUE, node |-> hashed]
        ELSE LET oldBitterEndNode == tree.knownNodes[oldBitterEnd]
                 purge == oldBitterEndNode.type = Aggregate
                 known == IF purge THEN Remove(tree.knownNodes, oldBitterEnd)
                          ELSE tree.knownNodes
                 loose == IF newBitterEndNode.type = Content
                          THEN SetAdd(SetRemove(tree.looseEnds, oldBitterEnd),
                                      sv.hash)
                          ELSE tree.looseEnds
             IN  [tree |-> [moved EXCEPT !.knownNodes = known,
                                         !.looseEnds = loose],
                  store |-> sv.store,
                  deleted |-> IF purge THEN del \cup {oldBitterEnd} ELSE del,
                  err |-> FALSE, node |-> hashed]

\* add that saves the new node and makes it known but leaves the bitter end
\* where it was
addKeepsBitterEnd(tree, st, del, newNode, fresh) ==
    LET sv == save(st, newNode, fresh)
    IN  Outcome([tree EXCEPT !.knownNodes =
                     SetValue(@, sv.hash, [newNode EXCEPT !.hash = sv.hash])],
                sv.store, del, FALSE)

\* ChronoTree.add
add(tree, st, del, newNode, fresh) ==
    IF newNode.hash \in DOMAIN tree.knownNodes
    THEN Outcome(tree, st, del, FALSE)
    ELSE IF tree.bitterEnd \notin DOMAIN tree.knownNodes
    THEN \* bitterEndNode is undefined: reading its type throws
         Outcome(tree, st, del, TRUE)
    ELSE LET bitterEndNode == tree.knownNodes[tree.bitterEnd]
             predecessors ==
                 IF bitterEndNode.type = Content
                 THEN IF bitterEndNode.hash # newNode.parent
                      THEN Append(newNode.predecessors, bitterEndNode.hash)
                      ELSE newNode.predecessors
                 ELSE bitterEndNode.predecessors
             rb == replaceBitterEnd(tree, st, del,
                       [newNode EXCEPT !.predecessors = predecessors], fresh)
         IN  IF rb.err
             THEN Outcome(rb.tree, rb.store, rb.deleted, TRUE)
             ELSE Outcome([rb.tree EXCEPT !.knownNodes =
                               SetValue(@, rb.node.hash, rb.node)],
                          rb.store, rb.deleted, FALSE)

\* the work-queue loop that follows the parent of a node but forgets its
\* predecessors
RECURSIVE mergeImplLoopParentOnly(_, _, _, _)
mergeImplLoopParentOnly(st, known, loose, todo) ==
    IF todo = <<>>
    THEN [known |-> known, loose |-> loose, err |-> FALSE]
    ELSE LET hash == Head(todo)
         IN  IF hash \in DOMAIN known
             THEN mergeImplLoopParentOnly(st, known, loose, Tail(todo))
             ELSE IF ~Found(st, hash)
             THEN [known |-> known, loose |-> loose, err |-> TRUE]
             ELSE LET node == find(st, hash)
                      hasParent == node.parent # HASH_NOT_SET
                  IN  mergeImplLoopParentOnly(st,
                          SetValue(known, hash, node),
                          IF hasParent
                          THEN SetRemove(SetAdd(loose, hash), node.parent)
                          ELSE SetAdd(loose, hash),
                          IF hasParent
                          THEN Append(Tail(todo), node.parent)
                          ELSE Tail(todo))

\* the work-queue loop of ChronoTree.mergeImpl
RECURSIVE mergeImplLoop(_, _, _, _)
mergeImplLoop(st, known, loose, todo) ==
    IF todo = <<>>
    THEN [known |-> known, loose |-> loose, err |-> FALSE]
    ELSE LET hash == Head(todo)
         IN  IF hash \in DOMAIN known
             THEN mergeImplLoop(st, known, loose, Tail(todo))
             ELSE IF ~Found(st, hash)
             THEN [known |-> known, loose |-> loose, err |-> TRUE]
             ELSE LET node == find(st, hash)
                      hasParent == node.parent # HASH_NOT_SET
                      queued == IF hasParent
                                THEN Append(Tail(todo), node.parent)
                                ELSE Tail(todo)
                      assumed == SetAdd(loose, hash)
                      lessParent == IF hasParent
                                    THEN SetRemove(assumed, node.parent)
                                    ELSE assumed
                  IN  mergeImplLoop(st, SetValue(known, hash, node),
                          SetRemoveAll(lessParent, node.predecessors),
                          queued \o node.predecessors)

\* replaceBitterEnd as src/src/chronoTree.ts has it: the old bitter end
\* leaves the loose ends and the new one joins them, whatever their types
replaceBitterEndOld(tree, st, del, newBitterEndNode, fresh) ==
    LET sv == save(st, newBitterEndNode, fresh)
        hashed == [newBitterEndNode EXCEPT !.hash = sv.hash]
        oldBitterEnd == tree.bitterEnd
        moved == [tree EXCEPT
                     !.bitterEnd = sv.hash,
                     !.looseEnds = SetAdd(SetRemove(@, oldBitterEnd), sv.hash)]
    IN  IF oldBitterEnd \notin DOMAIN tree.knownNodes
        THEN [tree |-> moved, store |-> sv.store, deleted |-> del,
              err |-> TRUE, node |-> hashed]
        ELSE LET purge == tree.knownNodes[oldBitterEnd].type = Aggregate
             IN  [tree |-> [moved EXCEPT !.knownNodes =
                               IF purge THEN Remove(@, oldBitterEnd) ELSE @],
                  store |-> sv.store,
                  deleted |-> IF purge THEN del \cup {oldBitterEnd} ELSE del,
                  err |-> FALSE, node |-> hashed]

\* mergeImpl as src/src/chronoTree.ts has it: a known hash is merged like
\* any other, and the new bitter end is always a new aggregate node
mergeImplOld(tree, st, del, other, initializing, fresh) ==
    LET walk == mergeImplLoop(st, tree.knownNodes, tree.looseEnds, <<other>>)
        walked == [tree EXCEPT !.knownNodes = walk.known,
                               !.looseEnds = walk.loose]
    IN  IF walk.err
        THEN Outcome(walked, st, del, TRUE)
        ELSE IF initializing
        THEN LET bitterEndNode == walk.known[tree.bitterEnd]
                 sorted == Sort(bitterEndNode.predecessors)
                 withParent ==
                     IF bitterEndNode.parent # HASH_NOT_SET
                     THEN SetAdd(walk.loose, bitterEndNode.parent)
                     ELSE walk.loose
             IN  Outcome(
                     [walked EXCEPT
                         !.knownNodes[tree.bitterEnd].predecessors = sorted,
                         !.looseEnds = SetAddAll(withParent, sorted)],
                     [st EXCEPT ![tree.bitterEnd].predecessors = sorted],
                     del, FALSE)
        ELSE LET rb == replaceBitterEndOld(walked, st, del,
                           [BitterEndNode EXCEPT
                               !.predecessors = Sort(walk.loose)], fresh)
             IN  IF rb.err
                 THEN Outcome(rb.tree, rb.store, rb.deleted, TRUE)
                 ELSE Outcome([rb.tree EXCEPT !.knownNodes =
                                   SetValue(@, rb.node.hash, rb.node)],
                              rb.store, rb.deleted, FALSE)

\* ChronoTree.mergeImpl
mergeImpl(tree, st, del, other, initializing, fresh) ==
    IF other \in DOMAIN tree.knownNodes
    THEN Outcome(tree, st, del, FALSE)
    ELSE
    LET walk == mergeImplLoop(st, tree.knownNodes, tree.looseEnds, <<other>>)
        walked == [tree EXCEPT !.knownNodes = walk.known,
                               !.looseEnds = walk.loose]
    IN  IF walk.err
        THEN Outcome(walked, st, del, TRUE)
        ELSE IF initializing
        THEN LET bitterEndNode == walk.known[tree.bitterEnd]
                 \* sort() sorts the node's array in place
                 sorted == Sort(bitterEndNode.predecessors)
                 withParent ==
                     IF bitterEndNode.parent # HASH_NOT_SET
                     THEN SetAdd(walk.loose, bitterEndNode.parent)
                     ELSE walk.loose
             IN  Outcome(
                     [walked EXCEPT
                         !.knownNodes[tree.bitterEnd].predecessors = sorted,
                         !.looseEnds = SetAddAll(withParent, sorted)],
                     [st EXCEPT ![tree.bitterEnd].predecessors = sorted],
                     del, FALSE)
        ELSE IF Len(walk.loose) = 1 /\ ~Found(st, walk.loose[1])
        THEN Outcome(walked, st, del, TRUE)
        ELSE LET newBitterEndNode ==
                     IF Len(walk.loose) = 1
                     THEN find(st, walk.loose[1])
                     ELSE [BitterEndNode EXCEPT
                              !.predecessors = Sort(walk.loose)]
                 rb == replaceBitterEnd(walked, st, del, newBitterEndNode,
                                        fresh)
             IN  IF rb.err
                 THEN Outcome(rb.tree, rb.store, rb.deleted, TRUE)
                 ELSE Outcome([rb.tree EXCEPT !.knownNodes =
                                   SetValue(@, rb.node.hash, rb.node)],
                              rb.store, rb.deleted, FALSE)

\* ChronoTree.merge
merge(tree, st, del, other, fresh) ==
    mergeImpl(tree, st, del, other, FALSE, fresh)

\* new ChronoTree(storage): the empty aggregate node is saved first
constructorEmpty(st, del, fresh) ==
    LET sv == save(st, BitterEndNode, fresh)
    IN  mergeImpl([NoTree EXCEPT !.constructed = TRUE,
                                 !.bitterEnd = sv.hash],
                  sv.store, del, sv.hash, TRUE, fresh)

\* new ChronoTree(storage, head)
constructorHead(st, del, head, fresh) ==
    mergeImpl([NoTree EXCEPT !.constructed = TRUE, !.bitterEnd = head],
              st, del, head, TRUE, fresh)

\* getNode that forgot the containsKey test and never throws
getNodeNeverThrows(tree, hash) == FALSE

\* ChronoTree.getNode throws for a hash that is not known
getNodeThrows(tree, hash) == hash \notin DOMAIN tree.knownNodes

getNode(tree, hash) == tree.knownNodes[hash]

\* the getter looseEnds: the loose ends, sorted
looseEnds(tree) == Sort(tree.looseEnds)

\* the getter knownNodes: a map from each node's hash to the node
knownNodes(tree) ==
    [h \in {tree.knownNodes[k].hash : k \in DOMAIN tree.knownNodes} |->
        LET k == CHOOSE k \in DOMAIN tree.knownNodes :
                     tree.knownNodes[k].hash = h
        IN  tree.knownNodes[k]]

\* ctCompare of the tests: equal bitter ends, loose ends and known nodes
ctCompare(lhs, rhs) ==
    /\ lhs.bitterEnd = rhs.bitterEnd
    /\ looseEnds(lhs) = looseEnds(rhs)
    /\ knownNodes(lhs) = knownNodes(rhs)

\* ------------------------------------------------------------ the system
\* the root post the tests save before they construct the replicas
rootNode == TestNode(1, HASH_NOT_SET)

ContentHashes(d) == {h \in DOMAIN d : d[h].type = Content}

\* Storage had a hash left for what the call saved
Fits(st) == HASH_NOT_SET \notin DOMAIN st

\* the bounds of the free run
Bounded(st) ==
    /\ Cardinality(DOMAIN st) <= MaxNodes
    /\ Cardinality(ContentHashes(st)) <= MaxContent

NoOp == [op |-> "none", tree |-> "A"]

Ran(op, t) == [op |-> op, tree |-> t]

\* what a call that returned or threw leaves in the variables
Leaves(t, out) ==
    /\ Fits(out.store)
    /\ pc.test = "free" => Bounded(out.store)
    /\ trees' = [trees EXCEPT ![t] = out.tree]
    /\ store' = out.store
    /\ deleted' = out.deleted

\* t = new ChronoTree(storage)
ConstructEmpty(t) ==
    /\ ~trees[t].constructed
    /\ LET out == constructorEmpty(store, deleted, FreshHash(store))
       IN  /\ Leaves(t, out)
           /\ last' = Ran("new", t)

\* t = new ChronoTree(storage, head)
ConstructHead(t, head) ==
    /\ ~trees[t].constructed
    /\ LET out == constructorHead(store, deleted, head, FreshHash(store))
       IN  /\ Leaves(t, out)
           /\ last' = Ran("new", t)

\* t.add(n) for a new TestNode n with a content and a parent
Add(t, content, parent) ==
    /\ trees[t].constructed
    /\ LET out == add(trees[t], store, deleted, TestNode(content, parent),
                      FreshHash(store))
       IN  /\ Leaves(t, out)
           /\ last' = Ran("add", t)

\* t.merge(other)
Merge(t, other) ==
    /\ trees[t].constructed
    /\ LET out == merge(trees[t], store, deleted, other, FreshHash(store))
       IN  /\ Leaves(t, out)
           /\ last' = Ran("merge", t)

\* ------------------------------------------------- replicas running freely
\* two replicas, constructed at any time on any head, add and merge
Pair == {"A", "B"}

Init ==
    /\ trees = [t \in Trees |-> NoTree]
    /\ \E fresh \in {1, MaxHash} :
           store = save(EmptyDictionary, rootNode, fresh).store
    /\ deleted = {}
    /\ last = NoOp
    /\ pc = [test |-> "free"]

FreeConstructEmpty == \E t \in Pair : ConstructEmpty(t) /\ UNCHANGED pc

FreeConstructHead ==
    \E t \in Pair, head \in DOMAIN store :
        ConstructHead(t, head) /\ UNCHANGED pc

\* the parent of a new node is unset or a Content node the replica knows
FreeAdd ==
    \E t \in Pair, content \in Payloads :
    \E parent \in {HASH_NOT_SET} \cup ContentHashes(trees[t].knownNodes) :
        Add(t, content, parent) /\ UNCHANGED pc

\* any hash Storage holds is merged, the bitter end of a peer among them
FreeMerge ==
    \E t \in Pair, other \in DOMAIN store :
        Merge(t, other) /\ UNCHANGED pc

Next ==
    \/ FreeConstructEmpty
    \/ FreeConstructHead
    \/ FreeAdd
    \/ FreeMerge

Spec == Init /\ [][Next]_vars

\* ------------------------------------------- the test 'should be associative'
\* three replicas on the root; each adds a child of the root with a content
\* of its own, the bitter ends are captured, and each replica merges the
\* captured bitter ends of the two others, the next replica's first.  The
\* replicas are independent, so their calls interleave freely.
treeOrder == <<"A", "B", "C">>

Index(t) == CHOOSE i \in 1..3 : treeOrder[i] = t

Following(t) == treeOrder[(Index(t) % 3) + 1]

\* three replicas constructed on the root
OnRoot(st) ==
    [t \in Trees |->
        constructorHead(st, {}, CHOOSE h \in DOMAIN st : TRUE,
                        HASH_NOT_SET).tree]

AssocInit ==
    /\ \E fresh \in {1, MaxHash} :
           store = save(EmptyDictionary, rootNode, fresh).store
    /\ trees = OnRoot(store)
    /\ deleted = {}
    /\ last = NoOp
    /\ pc = [test |-> "assoc", step |-> [t \in Trees |-> 0],
             heads |-> [t \in Trees |-> HASH_NOT_SET]]

\* xTree.add(xNode), xNode.parent = firstNode.hash; xHash = xTree.bitterEnd
AssocAdd ==
    \E t \in Trees :
        /\ pc.step[t] = 0
        /\ Add(t, Index(t), CHOOSE h \in DOMAIN store : store[h] =
                                [rootNode EXCEPT !.hash = h])
        /\ pc' = [pc EXCEPT !.step[t] = 1,
                            !.heads[t] = trees'[t].bitterEnd]

\* xTree.merge(yHash).merge(zHash), one merge at a time
AssocMerge ==
    \E t \in Trees :
        /\ \A u \in Trees : pc.step[u] >= 1
        /\ pc.step[t] \in {1, 2}
        /\ Merge(t, IF pc.step[t] = 1 THEN pc.heads[Following(t)]
                    ELSE pc.heads[Following(Following(t))])
        /\ pc' = [pc EXCEPT !.step[t] = @ + 1]

AssocNext == AssocAdd \/ AssocMerge

SpecAssoc == AssocInit /\ [][AssocNext]_vars

AssocDone == pc.test = "assoc" /\ \A t \in Trees : pc.step[t] = 3

\* ------------------------------------- the simulation, merging every round
\* combineAll of the simulation: every ordered pair of different replicas
combineAll ==
    LET pairs == [i \in 1..9 |-> <<treeOrder[((i - 1) \div 3) + 1],
                                   treeOrder[((i - 1) % 3) + 1]>>]
    IN  SelectSeq(pairs, LAMBDA p : p[1] # p[2])

\* step 0..2: replica step + 1 adds; step 3..8: pair step - 2 merges;
\* step 9: the replicas are compared
RoundInit ==
    /\ \E fresh \in {1, MaxHash} :
           store = save(EmptyDictionary, rootNode, fresh).store
    /\ trees = OnRoot(store)
    /\ deleted = {}
    /\ last = NoOp
    /\ pc = [test |-> "round", round |-> 1, step |-> 0]

\* trees[t].add(n): n.content is the round, n.parent a known Content node
RoundAdd ==
    /\ pc.step \in 0..2
    /\ LET t == treeOrder[pc.step + 1]
       IN  \E parent \in ContentHashes(trees[t].knownNodes) :
               Add(t, pc.round + 1, parent)
    /\ pc' = [pc EXCEPT !.step = @ + 1]

\* treePair[0].merge(treePair[1].bitterEnd)
RoundMerge ==
    /\ pc.step \in 3..8
    /\ LET treePair == combineAll[pc.step - 2]
       IN  Merge(treePair[1], trees[treePair[2]].bitterEnd)
    /\ pc' = [pc EXCEPT !.step = @ + 1]

\* the next iteration of the simulation
RoundAgain ==
    /\ pc.step = 9
    /\ pc.round < MaxRounds
    /\ pc' = [pc EXCEPT !.round = @ + 1, !.step = 0]
    /\ UNCHANGED <<trees, store, deleted, last>>

RoundNext == RoundAdd \/ RoundMerge \/ RoundAgain

SpecRound == RoundInit /\ [][RoundNext]_vars

RoundDone == pc.test = "round" /\ pc.step = 9

\* ================================================================ claims
Built == {t \in Trees : trees[t].constructed}

Known(t) == DOMAIN trees[t].knownNodes

Loose(t) == Range(trees[t].looseEnds)

BitterEnd(t) == trees[t].bitterEnd

\* the node at the bitter end of t is of the type
EndsIn(t, type) ==
    /\ BitterEnd(t) \in Known(t)
    /\ trees[t].knownNodes[BitterEnd(t)].type = type

AllAlike ==
    /\ ctCompare(trees["A"], trees["B"])
    /\ ctCompare(trees["B"], trees["C"])
    /\ ctCompare(trees["C"], trees["A"])

\* C1 (commutativity of merge): when t1 merged the bitter end h2 of t2
\* and t2 then merges the bitter end h1 that t1 had before, t1 and t2 have
\* equal bitter ends, equal loose ends and equal known nodes.
C1_Commutative ==
    [][\A t1, t2 \in Pair :
        (/\ t1 # t2
         /\ trees[t2].constructed
         /\ Merge(t1, trees[t2].bitterEnd))
        => LET back == merge(trees'[t2], store', deleted',
                             trees[t1].bitterEnd, FreshHash(store'))
           IN  ctCompare(trees'[t1], back.tree)]_vars

\* C2 (associativity of merge): three replicas on a common root that each
\* added one child of its own and merged the captured bitter ends of the
\* others, a: hb, hc; b: hc, ha; c: ha, hb, have equal bitter ends, equal
\* loose ends and equal known nodes.
C2_Associative == AssocDone => AllAlike

\* the three runs of C2 ended in an aggregate over the three children
C2_Witness ==
    /\ AssocDone
    /\ \A t \in Trees :
           /\ EndsIn(t, Aggregate)
           /\ Len(trees[t].knownNodes[BitterEnd(t)].predecessors) = 3

\* C3 (idempotence of merge): right after t.merge(h), a second t.merge(h)
\* returns and leaves the bitter end and the loose ends of t as they are.
C3_Idempotent ==
    [][\A t \in Pair, other \in DOMAIN store :
        Merge(t, other)
        => LET again == merge(trees'[t], store', deleted', other,
                              FreshHash(store'))
           IN  /\ ~again.err
               /\ again.tree.bitterEnd = trees'[t].bitterEnd
               /\ looseEnds(again.tree) = looseEnds(trees'[t])]_vars

\* a merge of a hash the replica did not know ran and tied two or more
\* loose ends into a new aggregate
C3_Witness ==
    /\ last.op = "merge"
    /\ EndsIn(last.tree, Aggregate)
    /\ Len(trees[last.tree].knownNodes[BitterEnd(last.tree)].predecessors) >= 2
    /\ BitterEnd(last.tree) \notin deleted

\* C4 (order-independent summary): two replicas that know the same Content
\* nodes have equal bitter ends.
C4_SameContentSameEnd ==
    \A t, u \in Built :
        ContentHashes(trees[t].knownNodes) = ContentHashes(trees[u].knownNodes)
        => BitterEnd(t) = BitterEnd(u)

\* C5 (round convergence): after every round of the simulation the three
\* replicas have equal bitter ends, equal loose ends and equal known nodes.
C5_RoundConverges == RoundDone => AllAlike

\* C6 (bitter-end determinism): two replicas whose loose ends are equal as
\* sets have equal bitter ends.
C6_SameLooseSameEnd ==
    \A t, u \in Built : Loose(t) = Loose(u) => BitterEnd(t) = BitterEnd(u)

\* C7 (closure): after the constructor, add and merge, the bitter end and
\* every loose end are keys of the known nodes.
C7_Closure ==
    \A t \in Built : BitterEnd(t) \in Known(t) /\ Loose(t) \subseteq Known(t)

\* C8: when the node at the bitter end is a Content node, the loose ends
\* are exactly the bitter end.
C8_ContentEnd ==
    \A t \in Built : EndsIn(t, Content) => Loose(t) = {BitterEnd(t)}

\* C9: when the node at the bitter end is an Aggregate, the loose ends are
\* its predecessors, and there are at least two of them.
C9_AggregateEnd ==
    \A t \in Built :
        EndsIn(t, Aggregate)
        => /\ Loose(t) = Range(trees[t].knownNodes[BitterEnd(t)].predecessors)
           /\ Cardinality(Loose(t)) >= 2

\* a known node other than the bitter-end Aggregate names h as its parent
\* or among its predecessors
Named(t, h) ==
    \E k \in Known(t) \ {h} :
        LET node == trees[t].knownNodes[k]
        IN  /\ ~(k = BitterEnd(t) /\ node.type = Aggregate)
            /\ (node.parent = h \/ h \in Range(node.predecessors))

\* C10 (leaf characterisation): h is a loose end if and only if h is known
\* and no other known node, the bitter-end Aggregate aside, names h as its
\* parent or among its predecessors.
C10_Leaves ==
    \A t \in Built :
        \A h \in Loose(t) \cup Known(t) :
            h \in Loose(t) <=> (h \in Known(t) /\ ~Named(t, h))

\* the hashes of the Aggregate nodes the replica t knows
KnownAggregates(t) ==
    {h \in Known(t) : trees[t].knownNodes[h].type = Aggregate}

\* C11 (aggregate transience): after every public operation a replica knows
\* at most one Aggregate node, and an Aggregate it knows is the node at its
\* bitter end, also after it merged the Aggregate bitter end of a peer.
C11_OneAggregate ==
    \A t \in Built : KnownAggregates(t) \subseteq {BitterEnd(t)}

\* C12 (empty construction): new ChronoTree(storage) leaves as bitter end
\* the hash of an Aggregate node without predecessors and without parent
\* that Storage holds, and getNode(bitterEnd) returns that node.
C12_EmptyConstruction ==
    [][\A t \in Pair :
        ConstructEmpty(t)
        => LET tree == trees'[t]
               hash == tree.bitterEnd
           IN  /\ hash # HASH_NOT_SET
               /\ Found(store', hash)
               /\ find(store', hash).type = Aggregate
               /\ find(store', hash).predecessors = <<>>
               /\ find(store', hash).parent = HASH_NOT_SET
               /\ ~getNodeThrows(tree, hash)
               /\ getNode(tree, hash) = find(store', hash)]_vars

\* a replica was constructed without a head and nothing ran on it since
C12_Witness ==
    /\ last.op = "new"
    /\ EndsIn(last.tree, Aggregate)
    /\ trees[last.tree].knownNodes[BitterEnd(last.tree)].predecessors = <<>>
    /\ Known(last.tree) = {BitterEnd(last.tree)}
    /\ BitterEnd(last.tree) \in DOMAIN store

\* C13 (attach to a Content head): new ChronoTree(storage, H) for a Content
\* node H of Storage, with or without parent and predecessors, leaves the
\* bitter end H and the loose ends {H}.
C13_ContentHead ==
    [][\A t \in Pair, head \in DOMAIN store :
        (store[head].type = Content /\ ConstructHead(t, head))
        => /\ trees'[t].bitterEnd = head
           /\ Range(trees'[t].looseEnds) = {head}]_vars

\* C14 (attach to an Aggregate head): new ChronoTree(storage, H) for an
\* Aggregate node H of Storage leaves the bitter end H and as loose ends
\* the predecessors of H, H itself not among them.
C14_AggregateHead ==
    [][\A t \in Pair, head \in DOMAIN store :
        (store[head].type = Aggregate /\ ConstructHead(t, head))
        => /\ trees'[t].bitterEnd = head
           /\ Range(trees'[t].looseEnds) = Range(store[head].predecessors)
           /\ head \notin Range(trees'[t].looseEnds)]_vars

\* the parents a new node may name: none, or a Content node the replica knows
Parents(t) == {HASH_NOT_SET} \cup ContentHashes(trees[t].knownNodes)

\* the node that t.add saved in the step: the node at the new bitter end
Added(t) == trees'[t].knownNodes[trees'[t].bitterEnd]

\* the bitter end of t is the empty Aggregate
EmptyAggregate(t) ==
    /\ EndsIn(t, Aggregate)
    /\ trees[t].knownNodes[BitterEnd(t)].predecessors = <<>>

\* C15 (predecessors given by add): add(n) saves n with the predecessors
\* sorted(loose ends before the call minus n.parent); the first node of an
\* empty replica has none, and a parent that is one of several loose ends
\* is not among them.
C15_AddPredecessors ==
    [][\A t \in Pair, content \in Payloads :
       \A parent \in Parents(t) :
        Add(t, content, parent)
        => Added(t).predecessors =
               IF EmptyAggregate(t)
               THEN <<>>
               ELSE Sort(SelectSeq(trees[t].looseEnds,
                                   LAMBDA h : h # parent))]_vars

\* the bitter end of t is a Content node and the only loose end
SingleContent(t) == EndsIn(t, Content) /\ Loose(t) = {BitterEnd(t)}

\* C16 (add from Empty-Aggregate or Single-Content): after add(n) the hash
\* of n is set, the bitter end is n.hash and names a Content node, the
\* loose ends are {n.hash}, and the known nodes are the Content nodes known
\* before plus n.
C16_AddToSingle ==
    [][\A t \in Pair, content \in Payloads :
       \A parent \in Parents(t) :
        ((EmptyAggregate(t) \/ SingleContent(t)) /\ Add(t, content, parent))
        => LET tree == trees'[t]
               n == Added(t)
           IN  /\ n.hash # HASH_NOT_SET
               /\ n.hash = tree.bitterEnd
               /\ n.type = Content
               /\ n.content = content
               /\ Range(tree.looseEnds) = {n.hash}
               /\ DOMAIN tree.knownNodes =
                      ContentHashes(trees[t].knownNodes) \cup {n.hash}]_vars

\* C17 (loose-end update of add): after add(n) the loose ends are the loose
\* ends before the call minus n.predecessors minus n.parent, plus n.hash,
\* also when the bitter end was an Aggregate over two or more loose ends
\* (an empty replica counts as having no loose end before the call).
C17_AddLooseEnds ==
    [][\A t \in Pair, content \in Payloads :
       \A parent \in Parents(t) :
        Add(t, content, parent)
        => LET n == Added(t)
               before == IF EmptyAggregate(t) THEN {} ELSE Loose(t)
           IN  Range(trees'[t].looseEnds) =
                   ((before \ Range(n.predecessors)) \ {n.parent})
                       \cup {n.hash}]_vars

\* C18 (split merge): L and R on the root r, L added a and R added b, both
\* with parent r; after L merged the bitter end of R, the bitter end of L
\* names an Aggregate without parent whose predecessors are a.hash and
\* b.hash, sorted.
C18_SplitMerge ==
    \A t \in Trees :
        (pc.test = "assoc" /\ pc.step[t] = 2)
        => /\ EndsIn(t, Aggregate)
           /\ getNode(trees[t], BitterEnd(t)).parent = HASH_NOT_SET
           /\ getNode(trees[t], BitterEnd(t)).predecessors =
                  IF pc.heads[t] < pc.heads[Following(t)]
                  THEN <<pc.heads[t], pc.heads[Following(t)]>>
                  ELSE <<pc.heads[Following(t)], pc.heads[t]>>

\* a replica merged the bitter end of its peer, whose hash sorts before
\* the hash of its own child
C18_Witness ==
    /\ pc.test = "assoc"
    /\ \E t \in Trees :
           /\ pc.step[t] = 2
           /\ pc.heads[Following(t)] < pc.heads[t]
           /\ Loose(t) = {pc.heads[t], pc.heads[Following(t)]}

\* C19 (merging a known hash is a no-op): merge(h) for a hash h the replica
\* knows, its bitter end included, leaves the bitter end, the loose ends
\* and the known nodes as they are and neither saves to nor deletes from
\* Storage.
C19_KnownHashNoOp ==
    [][\A t \in Pair, other \in DOMAIN store :
        (other \in Known(t) /\ Merge(t, other))
        => /\ trees'[t] = trees[t]
           /\ store' = store
           /\ deleted' = deleted]_vars

\* an empty replica merged its own bitter end: it still knows nothing else
C19_Witness ==
    /\ last.op = "merge"
    /\ EmptyAggregate(last.tree)
    /\ Known(last.tree) = {BitterEnd(last.tree)}
    /\ trees[last.tree].looseEnds = <<BitterEnd(last.tree)>>
    /\ deleted = {}

\* the Aggregate nodes Storage holds
SavedAggregates(st) == {h \in DOMAIN st : st[h].type = Aggregate}

\* C20 (merge to a single loose end): when the traversal of merge(other)
\* leaves a single loose end, the bitter end becomes that hash, it names a
\* Content node, and the merge saves no Aggregate node.
C20_SingleLooseEnd ==
    [][\A t \in Pair, other \in DOMAIN store :
        LET walk == mergeImplLoop(store, trees[t].knownNodes,
                                  trees[t].looseEnds, <<other>>)
        IN  (/\ Merge(t, other)
             /\ other \notin Known(t)
             /\ ~walk.err
             /\ Len(walk.loose) = 1)
            => /\ trees'[t].bitterEnd = walk.loose[1]
               /\ getNode(trees'[t], trees'[t].bitterEnd).type = Content
               /\ SavedAggregates(store') = SavedAggregates(store)]_vars

\* the step is an add or a merge on the replica t
AddOrMerge(t) == last'.op \in {"add", "merge"} /\ last'.tree = t

\* C23 (Content nodes are never forgotten): a Content hash that is a key of
\* the known nodes of a replica is still one after every later add and
\* merge on that replica.
C23_ContentStays ==
    [][\A t \in Pair :
        AddOrMerge(t)
        => ContentHashes(trees[t].knownNodes)
               \subseteq ContentHashes(trees'[t].knownNodes)]_vars

\* an add or merge replaced a Content bitter end that the replica still
\* knows
C23_Witness ==
    /\ last.op \in {"add", "merge"}
    /\ Cardinality(ContentHashes(trees[last.tree].knownNodes)) >= 3
    /\ BitterEnd(last.tree) \in Known(last.tree)

\* C25 (aggregate eviction): when add or merge replaces an Aggregate bitter
\* end by a different bitter end, Storage.delete was called with the old
\* hash and the replica no longer knows the old Aggregate.
C25_AggregateEvicted ==
    [][\A t \in Pair :
        (/\ EndsIn(t, Aggregate)
         /\ AddOrMerge(t)
         /\ trees'[t].bitterEnd # trees[t].bitterEnd)
        => /\ trees[t].bitterEnd \in deleted'
           /\ trees[t].bitterEnd \notin DOMAIN trees'[t].knownNodes]_vars

\* an Aggregate over two loose ends was deleted and its replica moved on
C25_Witness ==
    \E h \in deleted :
        /\ Len(store[h].predecessors) >= 2
        /\ EndsIn(last.tree, Content)
        /\ h \notin Known(last.tree)
        /\ Range(store[h].predecessors) \subseteq Known(last.tree)

\* C29 (only Aggregates are deleted): Storage.delete is called only with
\* the hash of an Aggregate node, never with the hash of a Content node.
C29_OnlyAggregatesDeleted ==
    \A h \in deleted : h \in DOMAIN store /\ store[h].type = Aggregate

\* an Aggregate was deleted while Storage holds Content nodes added since
C29_Witness ==
    /\ deleted # {}
    /\ Cardinality(ContentHashes(store)) >= 2
    /\ last.op = "add"

\* the hashes a node of Storage names: its parent and its predecessors
Links(st, h) ==
    IF h \in DOMAIN st
    THEN Range(st[h].predecessors) \cup ({st[h].parent} \ {HASH_NOT_SET})
    ELSE {}

\* the hashes reachable from the hashes of frontier through the links
RECURSIVE Reach(_, _, _)
Reach(st, seen, frontier) ==
    IF frontier = {}
    THEN seen
    ELSE LET found == seen \cup frontier
         IN  Reach(st, found,
                   UNION {Links(st, h) : h \in frontier} \ found)

\* Storage holds other and every node reachable from it
Complete(st, other) == Reach(st, {}, {other}) \subseteq DOMAIN st

\* the Content nodes reachable from other
ContentAncestors(st, other) ==
    {h \in Reach(st, {}, {other}) : st[h].type = Content}

Missing == MaxHash + 1

\* ChronoTree.add gets as far as Storage.save: the hash is not known and
\* the bitter end node can be read
addReachesSave(tree, newNode) ==
    /\ newNode.hash \notin DOMAIN tree.knownNodes
    /\ tree.bitterEnd \in DOMAIN tree.knownNodes

\* ChronoTree.add when Storage.save throws: save is the first statement of
\* replaceBitterEnd, before it only the new node's predecessors are written
addSaveThrows(tree, st, del, newNode) ==
    Outcome(tree, st, del, TRUE)

\* ChronoTree.merge gets as far as Storage.save: the hash is not known and
\* no find of the traversal or of the single loose end throws
mergeReachesSave(tree, st, other) ==
    /\ other \notin DOMAIN tree.knownNodes
    /\ LET walk == mergeImplLoop(st, tree.knownNodes, tree.looseEnds,
                                 <<other>>)
       IN  /\ ~walk.err
           /\ Len(walk.loose) = 1 => Found(st, walk.loose[1])

\* ChronoTree.merge when Storage.save throws: the traversal has run, save
\* is the first statement of replaceBitterEnd
mergeSaveThrows(tree, st, del, other) ==
    LET walk == mergeImplLoop(st, tree.knownNodes, tree.looseEnds, <<other>>)
    IN  Outcome([tree EXCEPT !.knownNodes = walk.known,
                             !.looseEnds = walk.loose],
                st, del, TRUE)

\* t.getNode(hash): returns or throws
GetNode(t, hash) ==
    /\ trees[t].constructed
    /\ last' = Ran(IF getNodeThrows(trees[t], hash)
                   THEN "getNodeThrew" ELSE "getNode", t)
    /\ UNCHANGED <<trees, store, deleted, pc>>

\* a call that returns or throws; a throw shows in the name of the call
Call(t, op, out) ==
    /\ Leaves(t, out)
    /\ last' = Ran(IF out.err THEN op \o "Threw" ELSE op, t)
    /\ UNCHANGED pc

FaultConstructHead ==
    \E t \in Pair, head \in DOMAIN store :
        /\ ~trees[t].constructed
        /\ LET out == constructorHead(store, deleted, head, FreshHash(store))
           IN  ~out.err /\ Call(t, "new", out)

\* the parent of a new node: unset, a known Content node, or a hash that
\* Storage does not hold
FaultAdd ==
    \E t \in Pair, content \in Payloads :
    \E parent \in Parents(t) \cup {Missing} :
        /\ trees[t].constructed
        /\ Call(t, "add", add(trees[t], store, deleted,
                              TestNode(content, parent), FreshHash(store)))

FaultMerge ==
    \E t \in Pair, other \in DOMAIN store \cup {Missing} :
        /\ trees[t].constructed
        /\ Call(t, "merge", merge(trees[t], store, deleted, other,
                                  FreshHash(store)))

FaultGetNode ==
    \E t \in Pair, hash \in DOMAIN store \cup {Missing} : GetNode(t, hash)

FaultAddSave ==
    \E t \in Pair, content \in Payloads :
    \E parent \in Parents(t) :
        /\ trees[t].constructed
        /\ addReachesSave(trees[t], TestNode(content, parent))
        /\ Call(t, "addSave", addSaveThrows(trees[t], store, deleted,
                                            TestNode(content, parent)))

FaultMergeSave ==
    \E t \in Pair, other \in DOMAIN store :
        /\ trees[t].constructed
        /\ mergeReachesSave(trees[t], store, other)
        /\ Call(t, "mergeSave",
                mergeSaveThrows(trees[t], store, deleted, other))

FaultNext ==
    \/ FaultConstructHead
    \/ FaultAdd
    \/ FaultMerge
    \/ FaultGetNode
    \/ FaultAddSave
    \/ FaultMergeSave

SpecFault == Init /\ [][FaultNext]_vars

\* the free run with getNode called between the operations
GetNext ==
    \/ FreeConstructEmpty
    \/ FreeConstructHead
    \/ FreeAdd
    \/ FreeMerge
    \/ FaultGetNode

SpecGet == Init /\ [][GetNext]_vars

\* the hashes a caller may pass: those of Storage and one it does not hold
Hashes == DOMAIN store \cup {Missing}

\* C21 (getNode): getNode(hash) returns the node stored under hash when the
\* replica knows hash and throws when it does not, as for the hash of an
\* Aggregate that was replaced; either way the replica stays as it is.
C21_GetNode ==
    [][\A t \in Pair, hash \in Hashes :
        GetNode(t, hash)
        => /\ hash \in Known(t)
                  => /\ last'.op = "getNode"
                     /\ getNode(trees[t], hash) = trees[t].knownNodes[hash]
                     /\ getNode(trees[t], hash).hash = hash
           /\ hash \notin Known(t) => last'.op = "getNodeThrew"
           /\ trees' = trees]_vars

\* getNode threw on the only replica there is, which had replaced an
\* Aggregate bitter end
C21_Witness ==
    /\ last.op = "getNodeThrew"
    /\ \A u \in Pair \ {last.tree} : ~trees[u].constructed
    /\ \E h \in deleted \ Known(last.tree) : store[h].type = Aggregate

\* C22 (Storage miss during merge): when Storage.find fails for the merged
\* hash or for an ancestor reached by the traversal, merge throws and the
\* bitter end, the loose ends and the known nodes are as before the call.
C22_FindFailure ==
    [][\A t \in Pair, other \in Hashes :
        (/\ last'.op = "mergeThrew"
         /\ last'.tree = t
         /\ mergeImplLoop(store, trees[t].knownNodes, trees[t].looseEnds,
                          <<other>>).err
         /\ Call(t, "merge", merge(trees[t], store, deleted, other,
                                   FreshHash(store))))
        => trees'[t] = trees[t]]_vars

\* C26 (save failure): when Storage.save fails during add, or during merge
\* after the traversal, the call throws and the bitter end, the loose ends
\* and the known nodes are as before the call.
C26_SaveFailure ==
    [][\A t \in Pair :
        (last'.op \in {"addSaveThrew", "mergeSaveThrew"} /\ last'.tree = t)
        => trees'[t] = trees[t]]_vars

\* the hash and the predecessors a caller may leave on a node it adds
Carried(content, parent) ==
    {[TestNode(content, parent) EXCEPT !.hash = hash,
                                       !.predecessors = predecessors] :
        hash \in {HASH_NOT_SET} \cup DOMAIN store,
        predecessors \in {<<>>} \cup {<<h>> : h \in DOMAIN store}}

\* C28 (input fields ignored by add): from one replica state, add(n) and
\* add(n') with the same payload and parent, n' carrying another hash and
\* other predecessors, end with the same saved node and the same bitter
\* end, loose ends and known nodes.
C28_InputIgnored ==
    \A t \in Pair, content \in Payloads :
        trees[t].constructed
        => \A parent \in Parents(t) : \A n \in Carried(content, parent) :
               add(trees[t], store, deleted, n, FreshHash(store)).tree
               = add(trees[t], store, deleted, TestNode(content, parent),
                     FreshHash(store)).tree

\* ------------------------------------------- node objects held by reference
\* TestStorage pushes the Node object it is given and find returns that
\* object; add keeps the caller's object in _knownNodes and writes its
\* predecessors and its hash.  In this run a node is an object with an
\* identity: `store' is the heap of the process, a replica's _knownNodes
\* maps a hash to an object, and the caller may add an object it holds to
\* another replica.

\* number of Node objects of the process
MaxObjects == 4
\* length a predecessors array may grow to
MaxPushed == 2
\* number of distinct hashes computeHash may return
MaxSaved == 6

\* nodes: the Node objects, their predecessors field pointing to an array;
\* arrays: the predecessors arrays; known: TestStorage._knownNodes, without
\* the repeats of an object pushed again; hashes: what computeHash was given
\* so far, the hash of a node being its place in the list
NoObjects == [nodes |-> <<>>, arrays |-> <<>>, known |-> <<>>, hashes |-> <<>>]

\* a node object as its readers see it
Object(heap, o) ==
    [heap.nodes[o] EXCEPT !.predecessors = heap.arrays[@]]

\* new TestNode() / new BitterEndNode() with its own predecessors array
NewObject(heap, node) ==
    [heap EXCEPT
        !.nodes = Append(@, [node EXCEPT
                                !.predecessors = Len(heap.arrays) + 1]),
        !.arrays = Append(@, node.predecessors)]

\* TestStorage.computeHash of an object whose hash save has cleared
computeHash(heap, o) ==
    LET at == {i \in 1..Len(heap.hashes) :
                  heap.hashes[i] = Cleared(Object(heap, o))}
    IN  IF at = {} THEN Len(heap.hashes) + 1 ELSE Min(at)

\* TestStorage.save, and the assignment of its result to the node's hash
saveObject(heap, o) ==
    LET hash == computeHash(heap, o)
    IN  [heap EXCEPT
            !.nodes[o].hash = hash,
            !.known = SetAdd(@, o),
            !.hashes = IF hash > Len(@)
                       THEN Append(@, Cleared(Object(heap, o))) ELSE @]

\* TestStorage.find: the first object pushed whose hash is the one asked for
Holds(heap, hash) ==
    {i \in 1..Len(heap.known) : heap.nodes[heap.known[i]].hash = hash}

findObject(heap, hash) == heap.known[Min(Holds(heap, hash))]

\* ChronoTree.replaceBitterEnd on a node object
replaceBitterEndObject(tree, heap, del, o) ==
    LET saved == saveObject(heap, o)
        hash == saved.nodes[o].hash
        oldBitterEnd == tree.bitterEnd
        moved == [tree EXCEPT !.bitterEnd = hash]
    IN  IF oldBitterEnd \notin DOMAIN tree.knownNodes
        THEN Outcome(moved, saved, del, TRUE)
        ELSE LET purge ==
                     saved.nodes[tree.knownNodes[oldBitterEnd]].type
                     = Aggregate
                 purged == IF purge
                           THEN [moved EXCEPT
                                    !.knownNodes = Remove(@, oldBitterEnd)]
                           ELSE moved
             IN  Outcome(
                     IF saved.nodes[o].type = Content
                     THEN [purged EXCEPT !.looseEnds =
                              SetAdd(SetRemove(@, oldBitterEnd), hash)]
                     ELSE purged,
                     saved,
                     IF purge THEN del \cup {oldBitterEnd} ELSE del,
                     FALSE)

\* ChronoTree.add of the node object o
addObject(tree, heap, del, o) ==
    IF heap.nodes[o].hash \in DOMAIN tree.knownNodes
    THEN Outcome(tree, heap, del, FALSE)
    ELSE IF tree.bitterEnd \notin DOMAIN tree.knownNodes
    THEN Outcome(tree, heap, del, TRUE)
    ELSE LET bitterEndNode == heap.nodes[tree.knownNodes[tree.bitterEnd]]
             newNode == heap.nodes[o]
             pushed ==
                 IF /\ bitterEndNode.type = Content
                    /\ bitterEndNode.hash # newNode.parent
                 THEN [heap EXCEPT !.arrays[newNode.predecessors] =
                          Append(@, bitterEndNode.hash)]
                 ELSE heap
             taken ==
                 IF bitterEndNode.type = Aggregate
                 THEN [pushed EXCEPT !.nodes[o].predecessors =
                          bitterEndNode.predecessors]
                 ELSE pushed
             rb == replaceBitterEndObject(tree, taken, del, o)
         IN  IF rb.err
             THEN rb
             ELSE Outcome([rb.tree EXCEPT !.knownNodes =
                               SetValue(@, rb.store.nodes[o].hash, o)],
                          rb.store, rb.deleted, FALSE)

\* the work-queue loop of mergeImpl over node objects
RECURSIVE mergeImplLoopObject(_, _, _, _)
mergeImplLoopObject(heap, known, loose, todo) ==
    IF todo = <<>>
    THEN [known |-> known, loose |-> loose, err |-> FALSE]
    ELSE LET hash == Head(todo)
         IN  IF hash \in DOMAIN known
             THEN mergeImplLoopObject(heap, known, loose, Tail(todo))
             ELSE IF Holds(heap, hash) = {}
             THEN [known |-> known, loose |-> loose, err |-> TRUE]
             ELSE LET node == Object(heap, findObject(heap, hash))
                      hasParent == node.parent # HASH_NOT_SET
                      queued == IF hasParent
                                THEN Append(Tail(todo), node.parent)
                                ELSE Tail(todo)
                      assumed == SetAdd(loose, hash)
                      lessParent == IF hasParent
                                    THEN SetRemove(assumed, node.parent)
                                    ELSE assumed
                  IN  mergeImplLoopObject(heap,
                          SetValue(known, hash, findObject(heap, hash)),
                          SetRemoveAll(lessParent, node.predecessors),
                          queued \o node.predecessors)

\* ChronoTree.merge over node objects
mergeObject(tree, heap, del, other) ==
    IF other \in DOMAIN tree.knownNodes
    THEN Outcome(tree, heap, del, FALSE)
    ELSE
    LET walk == mergeImplLoopObject(heap, tree.knownNodes, tree.looseEnds,
                                    <<other>>)
        walked == [tree EXCEPT !.knownNodes = walk.known,
                               !.looseEnds = walk.loose]
    IN  IF walk.err
        THEN Outcome(walked, heap, del, TRUE)
        ELSE IF Len(walk.loose) = 1 /\ Holds(heap, walk.loose[1]) = {}
        THEN Outcome(walked, heap, del, TRUE)
        ELSE LET made == IF Len(walk.loose) = 1
                         THEN heap
                         ELSE NewObject(heap,
                                  [BitterEndNode EXCEPT
                                      !.predecessors = Sort(walk.loose)])
                 newBitterEndNode ==
                     IF Len(walk.loose) = 1
                     THEN findObject(heap, walk.loose[1])
                     ELSE Len(made.nodes)
                 rb == replaceBitterEndObject(walked, made, del,
                                              newBitterEndNode)
             IN  IF rb.err
                 THEN rb
                 ELSE Outcome(
                          [rb.tree EXCEPT !.knownNodes =
                              SetValue(@,
                                  rb.store.nodes[newBitterEndNode].hash,
                                  newBitterEndNode)],
                          rb.store, rb.deleted, FALSE)

\* the Content objects the caller made and still holds
Held == {o \in 1..Len(store.nodes) : store.nodes[o].type = Content}

\* the keys of known_nodes that hold a Content node
ContentKeys(heap, tree) ==
    {h \in DOMAIN tree.knownNodes :
        heap.nodes[tree.knownNodes[h]].type = Content}

\* contentHashes of the simulation: the hash each known Content node carries
contentHashesOf(heap, tree) ==
    {heap.nodes[tree.knownNodes[h]].hash : h \in ContentKeys(heap, tree)}

\* the bounds of the run
Small(heap) ==
    /\ Len(heap.nodes) <= MaxObjects
    /\ Len(heap.hashes) <= MaxSaved
    /\ \A a \in 1..Len(heap.arrays) : Len(heap.arrays[a]) <= MaxPushed

\* a call on node objects that returns or throws
CallObject(t, op, out) ==
    /\ Small(out.store)
    /\ trees' = [trees EXCEPT ![t] = out.tree]
    /\ store' = out.store
    /\ deleted' = out.deleted
    /\ last' = Ran(IF out.err THEN op \o "Threw" ELSE op, t)
    /\ UNCHANGED pc

\* the root node is saved and the replicas are constructed on it
SharedInit ==
    /\ store = saveObject(NewObject(NoObjects, rootNode), 1)
    /\ trees = [t \in Trees |->
                   IF t \in Pair
                   THEN [constructed |-> TRUE, bitterEnd |-> 1,
                         knownNodes |-> SetValue(EmptyDictionary, 1, 1),
                         looseEnds |-> <<1>>]
                   ELSE NoTree]
    /\ deleted = {}
    /\ last = NoOp
    /\ pc = [test |-> "shared"]

\* n = new TestNode(); n.content = content; n.parent = parent; t.add(n)
SharedAdd ==
    \E t \in Pair, content \in Payloads :
    \E parent \in {HASH_NOT_SET} \cup contentHashesOf(store, trees[t]) :
        LET made == NewObject(store, TestNode(content, parent))
        IN  CallObject(t, "add",
                addObject(trees[t], made, deleted, Len(made.nodes)))

\* t.add(n) for a node n the caller has added before
SharedAddAgain ==
    \E t \in Pair, o \in Held :
        CallObject(t, "add", addObject(trees[t], store, deleted, o))

\* t.merge(u.bitterEnd)
SharedMerge ==
    \E t \in Pair : \E u \in Pair \ {t} :
        /\ trees[u].constructed
        /\ CallObject(t, "merge",
               mergeObject(trees[t], store, deleted, trees[u].bitterEnd))

SharedNext ==
    \/ SharedAdd
    \/ SharedAddAgain
    \/ SharedMerge

SpecShared == SharedInit /\ [][SharedNext]_vars

\* type, parent and predecessors of the node a replica knows under hash
Fields(heap, tree, hash) ==
    LET node == Object(heap, tree.knownNodes[hash])
    IN  <<node.type, node.parent, node.predecessors>>

\* C24 (Content immutability): once a Content hash is in known_nodes, the
\* type, the parent and the predecessors of the node stored under it stay
\* as they are through every later add and merge, the add of a node added
\* before and the add under an Aggregate bitter end among them.
C24_ContentImmutable ==
    [][\A t \in Pair : \A h \in ContentKeys(store, trees[t]) :
        h \in DOMAIN trees'[t].knownNodes
        => Fields(store', trees'[t], h) = Fields(store, trees[t], h)]_vars

\* C30 (replica independence): an add or a merge on one replica leaves the
\* bitter end, the loose ends and the known nodes of every other replica,
\* and the parent and the predecessors of each node it knows, as they were.
C30_ReplicaIndependent ==
    [][\A t \in Pair, u \in Pair :
        (u # t /\ last'.tree = t /\ last'.op \in {"add", "merge"})
        => /\ trees'[u] = trees[u]
           /\ \A h \in DOMAIN trees[u].knownNodes :
                  Fields(store', trees[u], h) = Fields(store, trees[u], h)]_vars

\* ------------------------------------------------- what the history names
\* C33 (ancestor closure): after the constructor, add with the parent unset
\* or known, and merge, every hash that a known Content node names as its
\* parent or as a predecessor is a key of the known nodes.
C33_AncestorClosure ==
    \A t \in Built : \A h \in ContentHashes(trees[t].knownNodes) :
        LET node == trees[t].knownNodes[h]
        IN  /\ node.parent # HASH_NOT_SET => node.parent \in Known(t)
            /\ Range(node.predecessors) \subseteq Known(t)

\* C34: no Content node that Storage holds names the hash of an Aggregate
\* node among its predecessors, also after a replica merged the Aggregate
\* bitter end of a peer.
C34_NoAggregatePredecessor ==
    \A h \in ContentHashes(store) :
        Range(store[h].predecessors) \cap SavedAggregates(store) = {}

\* C35: whatever the bitter end of the replica, the empty Aggregate, a
\* Content node or an Aggregate of several loose ends, add(n) of a new node
\* ends with the bitter end n.hash, which names the Content node n, and
\* saves no Aggregate.
C35_AddEndsInContent ==
    [][\A t \in Pair, content \in Payloads :
       \A parent \in Parents(t) :
        (/\ last'.op = "add"
         /\ last'.tree = t
         /\ Add(t, content, parent))
        => /\ trees'[t].bitterEnd \in DOMAIN trees'[t].knownNodes
           /\ Added(t).hash = trees'[t].bitterEnd
           /\ Added(t).type = Content
           /\ Added(t).content = content
           /\ Added(t).parent = parent
           /\ SavedAggregates(store') = SavedAggregates(store)]_vars

\* an add has replaced an Aggregate of several loose ends: the node at the
\* bitter end has the predecessors of a deleted Aggregate
C35_Witness ==
    /\ last.op = "add"
    /\ EndsIn(last.tree, Content)
    /\ \E h \in deleted :
           /\ Len(store[h].predecessors) >= 2
           /\ trees[last.tree].knownNodes[BitterEnd(last.tree)].predecessors
              = store[h].predecessors

\* ------------------------------------------ the traversal, one turn a step
\* The free run with the while loop of mergeImpl taken one turn at a time.
\* pc holds the locals of the call in progress: the queue todo, the
\* dictionary and the set the loop writes, the hashes it fetched and the
\* number of hashes it dequeued and skipped.  A replica is changed when its
\* call returns; the calls do not interleave, the engine being synchronous.

\* number of nodes Storage may hold when the loop is taken turn by turn
MaxWalked == 4

\* the bound of the run
Walked(st) == Cardinality(DOMAIN st) <= MaxWalked

\* one turn of the loop that does not ask whether the hash is known
loopBodyRefetches(st, walk) ==
    LET hash == Head(walk.todo)
    IN  IF ~Found(st, hash)
        THEN [walk EXCEPT !.err = TRUE]
        ELSE LET node == find(st, hash)
                 hasParent == node.parent # HASH_NOT_SET
                 queued == IF hasParent
                           THEN Append(Tail(walk.todo), node.parent)
                           ELSE Tail(walk.todo)
                 assumed == SetAdd(walk.loose, hash)
                 lessParent == IF hasParent
                               THEN SetRemove(assumed, node.parent)
                               ELSE assumed
             IN  [walk EXCEPT
                     !.known = SetValue(@, hash, node),
                     !.loose = SetRemoveAll(lessParent, node.predecessors),
                     !.todo = queued \o node.predecessors,
                     !.fetched = Append(@, hash)]

\* one turn of the while loop of mergeImpl: a hash is dequeued, and fetched
\* and expanded when it is not known yet
loopBody(st, walk) ==
    LET hash == Head(walk.todo)
    IN  IF hash \in DOMAIN walk.known
        THEN [walk EXCEPT !.todo = Tail(@), !.skipped = @ + 1]
        ELSE IF ~Found(st, hash)
        THEN [walk EXCEPT !.err = TRUE]
        ELSE LET node == find(st, hash)
                 hasParent == node.parent # HASH_NOT_SET
                 queued == IF hasParent
                           THEN Append(Tail(walk.todo), node.parent)
                           ELSE Tail(walk.todo)
                 assumed == SetAdd(walk.loose, hash)
                 lessParent == IF hasParent
                               THEN SetRemove(assumed, node.parent)
                               ELSE assumed
             IN  [walk EXCEPT
                     !.known = SetValue(@, hash, node),
                     !.loose = SetRemoveAll(lessParent, node.predecessors),
                     !.todo = queued \o node.predecessors,
                     !.fetched = Append(@, hash)]

\* the locals of mergeImpl(other, initializing) on the replica t when the
\* loop is entered
Entered(t, tree, other, initializing) ==
    [test |-> "free", at |-> "loop", tree |-> t, other |-> other,
     initializing |-> initializing,
     walk |-> [known |-> tree.knownNodes, loose |-> tree.looseEnds,
               todo |-> <<other>>, fetched |-> <<>>, skipped |-> 0,
               err |-> FALSE]]

\* no call is in progress
Idle == [Entered("A", NoTree, HASH_NOT_SET, FALSE) EXCEPT !.at = "idle"]

WalkInit ==
    /\ trees = [t \in Trees |-> NoTree]
    /\ \E fresh \in {1, MaxHash} :
           store = save(EmptyDictionary, rootNode, fresh).store
    /\ deleted = {}
    /\ last = NoOp
    /\ pc = Idle

\* new ChronoTree(storage) up to the loop: the empty aggregate node is saved
WalkConstructEmpty ==
    \E t \in Pair :
        /\ pc.at = "idle"
        /\ ~trees[t].constructed
        /\ LET sv == save(store, BitterEndNode, FreshHash(store))
           IN  /\ Fits(sv.store) /\ Bounded(sv.store) /\ Walked(sv.store)
               /\ store' = sv.store
               /\ pc' = Entered(t, NoTree, sv.hash, TRUE)
        /\ UNCHANGED <<trees, deleted, last>>

\* new ChronoTree(storage, head) up to the loop
WalkConstructHead ==
    \E t \in Pair, head \in DOMAIN store :
        /\ pc.at = "idle"
        /\ ~trees[t].constructed
        /\ pc' = Entered(t, NoTree, head, TRUE)
        /\ UNCHANGED <<trees, store, deleted, last>>

\* t.merge(other) up to the loop; a known hash returns at once.  The call
\* is made while Storage has room for the Aggregate it may save.
WalkMerge ==
    \E t \in Pair, other \in DOMAIN store :
        /\ pc.at = "idle"
        /\ trees[t].constructed
        /\ Cardinality(DOMAIN store) < MaxWalked
        /\ IF other \in DOMAIN trees[t].knownNodes
           THEN last' = Ran("merge", t) /\ UNCHANGED pc
           ELSE pc' = Entered(t, trees[t], other, FALSE) /\ UNCHANGED last
        /\ UNCHANGED <<trees, store, deleted>>

\* one turn of the loop; a find that throws ends the call
WalkStep ==
    /\ pc.at = "loop"
    /\ pc.walk.todo # <<>>
    /\ LET walk == loopBody(store, pc.walk)
       IN  IF walk.err
           THEN /\ pc' = Idle
                /\ last' = Ran(IF pc.initializing
                               THEN "newThrew" ELSE "mergeThrew", pc.tree)
                /\ trees' = IF pc.initializing THEN trees
                            ELSE [trees EXCEPT
                                     ![pc.tree].knownNodes = walk.known,
                                     ![pc.tree].looseEnds = walk.loose]
           ELSE /\ pc' = [pc EXCEPT !.walk = walk]
                /\ UNCHANGED <<trees, last>>
    /\ UNCHANGED <<store, deleted>>

\* the queue is empty: the loop is left
WalkLeave ==
    /\ pc.at = "loop"
    /\ pc.walk.todo = <<>>
    /\ pc' = [pc EXCEPT !.at = "rest"]
    /\ UNCHANGED <<trees, store, deleted, last>>

\* the rest of mergeImpl runs and the call returns
WalkEnd ==
    /\ pc.at = "rest"
    /\ LET out == IF pc.initializing
                  THEN constructorHead(store, deleted, pc.other,
                                       FreshHash(store))
                  ELSE merge(trees[pc.tree], store, deleted, pc.other,
                             FreshHash(store))
       IN  Walked(out.store) /\ Leaves(pc.tree, out)
    /\ last' = Ran(IF pc.initializing THEN "new" ELSE "merge", pc.tree)
    /\ pc' = Idle

WalkAdd ==
    \E t \in Pair, content \in Payloads :
    \E parent \in Parents(t) :
        /\ pc.at = "idle"
        /\ Add(t, content, parent)
        /\ Walked(store')
        /\ UNCHANGED pc

WalkNext ==
    \/ WalkConstructEmpty
    \/ WalkConstructHead
    \/ WalkMerge
    \/ WalkStep
    \/ WalkLeave
    \/ WalkEnd
    \/ WalkAdd

\* a call that entered the loop goes on, turn by turn
SpecWalk ==
    /\ WalkInit
    /\ [][WalkNext]_vars
    /\ WF_vars(WalkStep)
    /\ WF_vars(WalkLeave)

\* what the replica of the call in progress knew when the loop was entered
KnownBefore ==
    IF pc.initializing THEN {} ELSE Known(pc.tree)

\* no hash is fetched twice, no hash known before is fetched, and what was
\* fetched is in Storage
FetchedOnce ==
    pc.at # "idle"
    => /\ \A i, j \in 1..Len(pc.walk.fetched) :
              pc.walk.fetched[i] = pc.walk.fetched[j] => i = j
       /\ Range(pc.walk.fetched) \cap KnownBefore = {}
       /\ Range(pc.walk.fetched) \subseteq DOMAIN store

\* C36 (termination of the traversal): over a Storage with finitely many
\* nodes the work-queue loop of the constructor and of merge ends: no hash
\* is fetched or expanded a second time, nor one that was known before, and
\* every call that entered the loop leaves it.
C36_TraversalEnds ==
    /\ []FetchedOnce
    /\ (pc.at = "loop") ~> (pc.at # "loop")

\* a merge has left the loop after it fetched several nodes and dequeued a
\* hash it knew already
C36_Witness ==
    /\ pc.at = "rest"
    /\ ~pc.initializing
    /\ pc.walk.todo = <<>>
    /\ Len(pc.walk.fetched) >= 2
    /\ pc.walk.skipped >= 1

\* ------------------------------------------- a Storage whose delete removes
\* The free run over a Storage that forgets what delete was called with:
\* find throws for a deleted hash until the node is saved again.  `store'
\* keeps every node ever saved, as the hash function of Storage, and
\* `deleted' the hashes that are removed at present.

\* what Storage.find can return
Live(st, del) == [h \in DOMAIN st \ del |-> st[h]]

\* the hashes, now deleted, of the nodes that the call saved again
Resaved(st, del, out) ==
    {h \in del : \E k \in DOMAIN out.store \ DOMAIN Live(st, del) :
                     Cleared(out.store[k]) = Cleared(st[h])}

\* the hash Storage.save gives the node a call saves, `first' being the call
\* made with the next hash: a node saved again gets the hash it had, a new
\* node the next hash
LiveHash(st, del, first) ==
    IF Resaved(st, del, first) = {}
    THEN FreshHash(st)
    ELSE CHOOSE h \in Resaved(st, del, first) : TRUE

\* what a call leaves in the variables: every save of the call is undone
\* by none of its deletes but by a delete that follows it
LeavesLive(t, op, out) ==
    /\ Fits(store @@ out.store)
    /\ Bounded(store @@ out.store)
    /\ trees' = [trees EXCEPT ![t] = out.tree]
    /\ store' = store @@ out.store
    /\ deleted' = (deleted \ DOMAIN out.store) \cup out.deleted
    /\ last' = Ran(IF out.err THEN op \o "Threw" ELSE op, t)
    /\ UNCHANGED pc

LiveConstructEmpty ==
    \E t \in Pair :
        /\ ~trees[t].constructed
        /\ LET live == Live(store, deleted)
               first == constructorEmpty(live, {}, FreshHash(store))
               out == constructorEmpty(live, {},
                                       LiveHash(store, deleted, first))
           IN  ~out.err /\ LeavesLive(t, "new", out)

LiveConstructHead ==
    \E t \in Pair, head \in DOMAIN store \ deleted :
        /\ ~trees[t].constructed
        /\ LET live == Live(store, deleted)
               first == constructorHead(live, {}, head, FreshHash(store))
               out == constructorHead(live, {}, head,
                                      LiveHash(store, deleted, first))
           IN  ~out.err /\ LeavesLive(t, "new", out)

LiveAdd ==
    \E t \in Pair, content \in Payloads :
    \E parent \in Parents(t) :
        /\ trees[t].constructed
        /\ LET live == Live(store, deleted)
               newNode == TestNode(content, parent)
               first == add(trees[t], live, {}, newNode, FreshHash(store))
           IN  LeavesLive(t, "add",
                   add(trees[t], live, {}, newNode,
                       LiveHash(store, deleted, first)))

\* t.merge(u.bitterEnd), and the merge of any hash Storage can find
LiveMerge ==
    \E t \in Pair :
    \E other \in (DOMAIN store \ deleted)
                 \cup {trees[u].bitterEnd : u \in Built} :
        /\ trees[t].constructed
        /\ LET live == Live(store, deleted)
               first == merge(trees[t], live, {}, other, FreshHash(store))
           IN  LeavesLive(t, "merge",
                   merge(trees[t], live, {}, other,
                         LiveHash(store, deleted, first)))

LiveNext ==
    \/ LiveConstructEmpty
    \/ LiveConstructHead
    \/ LiveAdd
    \/ LiveMerge

SpecLive == Init /\ [][LiveNext]_vars

\* C32: over a Storage whose delete removes the node, shared by several
\* replicas, Storage.find returns the bitter end of every replica in every
\* reachable state: no add or merge of one replica deletes the node at the
\* bitter end of another.
C32_BitterEndFound ==
    \A t \in Built : BitterEnd(t) \in DOMAIN Live(store, deleted)

\* ------------------------------------------------ adds stop, merges go on
\* The free run in two parts: while pc.adding the replicas are constructed,
\* add and merge; after that they only merge the bitter end the peer has at
\* the time.

SettleInit ==
    /\ trees = [t \in Trees |-> NoTree]
    /\ \E fresh \in {1, MaxHash} :
           store = save(EmptyDictionary, rootNode, fresh).store
    /\ deleted = {}
    /\ last = NoOp
    /\ pc = [test |-> "free", adding |-> TRUE]

SettleConstructEmpty ==
    \E t \in Pair : pc.adding /\ ConstructEmpty(t) /\ UNCHANGED pc

SettleConstructHead ==
    \E t \in Pair, head \in DOMAIN store :
        pc.adding /\ ConstructHead(t, head) /\ UNCHANGED pc

SettleAdd ==
    \E t \in Pair, content \in Payloads :
    \E parent \in Parents(t) :
        pc.adding /\ Add(t, content, parent) /\ UNCHANGED pc

\* the last add was made
SettleStop ==
    /\ pc.adding
    /\ Built = Pair
    /\ pc' = [pc EXCEPT !.adding = FALSE]
    /\ UNCHANGED <<trees, store, deleted, last>>

\* t.merge(u.bitterEnd)
SettleMerge ==
    \E t \in Pair : \E u \in Built \ {t} :
        Merge(t, trees[u].bitterEnd) /\ UNCHANGED pc

SettleNext ==
    \/ SettleConstructEmpty
    \/ SettleConstructHead
    \/ SettleAdd
    \/ SettleStop
    \/ SettleMerge

\* the loop of adds is bounded, so the last add is made once both replicas
\* stand; that the merges go on is the premise of C31, stated there
SpecSettle == SettleInit /\ [][SettleNext]_vars /\ WF_vars(SettleStop)

\* the replicas have the same bitter end and the same loose ends, and the
\* merge of the peer's bitter end changes none of them
Settled ==
    \A t, u \in Pair :
        /\ trees[t].bitterEnd = trees[u].bitterEnd
        /\ looseEnds(trees[t]) = looseEnds(trees[u])
        /\ merge(trees[t], store, deleted, trees[u].bitterEnd,
                 FreshHash(store)).tree = trees[t]

\* Storage has no room for the Aggregate of one more merge
OutOfRoom == Cardinality(DOMAIN store) >= MaxNodes

\* C31 (eventual convergence): when the adds have stopped and each replica
\* merges the current bitter end of the other again and again, then
\* eventually, and from then on for ever, the replicas have the same bitter
\* end and the same loose ends and no merge changes a replica (runs that
\* fill Storage to its bound are left aside).
C31_Converges ==
    (/\ <>[](~pc.adding)
     /\ []<>(last = Ran("merge", "A"))
     /\ []<>(last = Ran("merge", "B")))
    => (<>[]Settled \/ <>OutOfRoom)

====
